---- MODULE Spec2Model ----
(***************************************************************************)
(* promise-observer: an emitter whose emit() returns a promise that waits  *)
(* for every subscriber and everything they forward to.                    *)
(*                                                                         *)
(* The model is the JavaScript run-to-completion machine the library runs  *)
(* on: a heap of promises with their reaction lists, the FIFO microtask    *)
(* queue, the FIFO timer list, and the subscription tables of the emitters.*)
(* A synchronous call (emit's traversal, a listener body, subscribe, next, *)
(* remove) is an operator from heap to heap, so that one action is one     *)
(* whole job of the event loop.                                            *)
(***************************************************************************)
EXTENDS Integers, Sequences, FiniteSets, TLC

\* Bounds of the exploration.
MaxEmitters == 4
MaxEmits == 1
MaxValue == 1
\* The emitters and the activations of emit of the cyclic wiring.
MaxCycleEmitters == 3
MaxActivations == 6
\* The inputs of a call of waitAll from outside, and the calls.
MaxInputs == 3
MaxWaitAlls == 1
\* The calls of remove and unlink from outside.
MaxRemoves == 2
\* The emitters of the specification of the tables.
MaxTableEmitters == 3
\* The subscriptions that listeners may add by calling next().
MaxWaits == 2
MaxWaitEmitters == 5
\* The emits of the specification of next().
MaxNextEmits == 2

\* opts.emitTimeout of the emitters created with a timeout.
EmitTimeout == 10
\* TimeoutError.timedoutListener's initial value, '<unknown>'.
Unknown == 0

VARIABLES
    subscriptions,  \* emitter -> its table: sequence of [target, listener]
    opts,           \* emitter -> [emitTimeout: <<>> (null) or <<ms>>]
    parent,         \* emitter -> the emitter whose remove its unlink() calls
    promises,       \* promise -> [state, value, reactions, n]
    microtasks,     \* the job queue of promise reactions
    timers,         \* pending setTimeout callbacks of timeout(), oldest first
    errors,         \* the TimeoutError objects: [timedoutListener]
    work,           \* the unsettled promises returned by asynchronous listeners
    emits,          \* the activations of emit: arguments, `current`, outcome
    calls,          \* every listener invocation, in order
    fired,          \* the timers that fired, and whether their race was undecided
    removes,        \* the calls of remove and unlink from outside, in order
    waits           \* the calls of waitAll from outside: inputs, result, order

vars == <<subscriptions, opts, parent, promises, microtasks, timers, errors,
          work, emits, calls, fired, removes, waits>>

----------------------------------------------------------------------------
\* Values

Num(n) == [kind |-> "num", n |-> n]
Undefined == [kind |-> "undefined", n |-> 0]
NaN == [kind |-> "NaN", n |-> 0]
Error(n) == [kind |-> "Error", n |-> n]
TypeError == [kind |-> "TypeError", n |-> 0]
TimeoutError(e) == [kind |-> "TimeoutError", n |-> e]
\* The array splice returns: the entry of target, removed.
Spliced(target) == [kind |-> "array", n |-> target]

\* val + add, as the listeners v => v + 1 compute it.
Plus(val, add) == IF val.kind = "num" THEN Num(val.n + add) ELSE NaN

\* The heap as one value, so that synchronous code is a function of it.
Heap ==
    [subscriptions |-> subscriptions, opts |-> opts, parent |-> parent,
     promises |-> promises, microtasks |-> microtasks, timers |-> timers,
     errors |-> errors, work |-> work, emits |-> emits, calls |-> calls,
     fired |-> fired, removes |-> removes, waits |-> waits,
     ret |-> [kind |-> "value", v |-> Undefined, p |-> 0]]

Returned(h, val) == [h EXCEPT !.ret = [kind |-> "value", v |-> val, p |-> 0]]
ReturnedPromise(h, p) == [h EXCEPT !.ret = [kind |-> "promise", v |-> Undefined, p |-> p]]
Thrown(h, val) == [h EXCEPT !.ret = [kind |-> "throw", v |-> val, p |-> 0]]

----------------------------------------------------------------------------
\* Promises

Reaction(kind, d, a, v) == [kind |-> kind, d |-> d, a |-> a, v |-> v]
Job(r, state, value) == [r |-> r, state |-> state, value |-> value]

\* new Promise(...): the new promise is Len(h.promises) + 1.
NewPromise(h, state, value) ==
    [h EXCEPT !.promises =
        Append(@, [state |-> state, value |-> value, reactions |-> <<>>, n |-> 0])]

\* The resolve / reject functions of promise p, called with a non-thenable.
Settle(h, p, state, value) ==
    IF h.promises[p].state # "pending" THEN h
    ELSE [h EXCEPT
            !.promises[p] = [@ EXCEPT !.state = state, !.value = value,
                                      !.reactions = <<>>],
            !.microtasks = @ \o [i \in 1..Len(h.promises[p].reactions) |->
                                   Job(h.promises[p].reactions[i], state, value)]]

\* p.then(...): the reaction waits on p, or is queued when p is settled.
PromiseThen(h, p, r) ==
    IF h.promises[p].state = "pending"
    THEN [h EXCEPT !.promises[p].reactions = Append(@, r)]
    ELSE [h EXCEPT !.microtasks =
            Append(@, Job(r, h.promises[p].state, h.promises[p].value))]

----------------------------------------------------------------------------
\* helpers.waitAll

RECURSIVE waitAllLoop(_, _, _, _)
\* for (k = 0; k < n; ++k) Promise.resolve(promises[k]).then(count, reject)
waitAllLoop(h, results, k, w) ==
    IF k > Len(results) THEN h
    ELSE waitAllLoop(PromiseThen(h, results[k], Reaction("count", w, 0, Undefined)),
                     results, k + 1, w)

\* Mutant: without the case n === 0.
waitAllNoEmpty(h, results) ==
    LET w == Len(h.promises) + 1
        h1 == NewPromise(h, "pending", Undefined)
        h2 == [h1 EXCEPT !.promises[w].n = Len(results)]
    IN ReturnedPromise(waitAllLoop(h2, results, 1, w), w)

\* if (n === 0) return Promise.resolve(); else a new promise that count and
\* reject settle.
waitAll(h, results) ==
    LET w == Len(h.promises) + 1 IN
    IF Len(results) = 0
    THEN ReturnedPromise(NewPromise(h, "fulfilled", Undefined), w)
    ELSE LET h1 == NewPromise(h, "pending", Undefined)
             h2 == [h1 EXCEPT !.promises[w].n = Len(results)]
         IN ReturnedPromise(waitAllLoop(h2, results, 1, w), w)

\* Mutant: count resolves on the first input that resolves.
waitAllFirst(h, w, state, value) ==
    IF state = "rejected" THEN Settle(h, w, "rejected", value)
    ELSE Settle(h, w, "fulfilled", Undefined)

\* Mutant: reject counts like count.
waitAllCounting(h, w, state, value) ==
    LET h1 == [h EXCEPT !.promises[w].n = @ - 1] IN
    IF h1.promises[w].n = 0 THEN Settle(h1, w, "fulfilled", Undefined) ELSE h1

\* count = () => { if (--n === 0) resolve(void 0) }, and reject.
waitAllSettled(h, w, state, value) ==
    IF state = "rejected" THEN Settle(h, w, "rejected", value)
    ELSE LET h1 == [h EXCEPT !.promises[w].n = @ - 1] IN
         IF h1.promises[w].n = 0 THEN Settle(h1, w, "fulfilled", Undefined) ELSE h1

----------------------------------------------------------------------------
\* timeout(p, delay): a race of p against a timer that rejects with a new
\* TimeoutError. The timer is never cleared.

\* Mutant: the timer is set but the result only follows p.
timeoutNoRace(h, p, delay) ==
    ReturnedPromise(
      PromiseThen(
        NewPromise(
          [NewPromise([h EXCEPT !.errors = Append(@, [timedoutListener |-> Unknown])],
                      "pending", Undefined)
             EXCEPT !.timers = Append(@, [p |-> Len(h.promises) + 1,
                                          e |-> Len(h.errors) + 1,
                                          delay |-> delay, raced |-> p])],
          "pending", Undefined),
        p, Reaction("adopt", Len(h.promises) + 2, 0, Undefined)),
      Len(h.promises) + 2)

timeout(h, p, delay) ==
    LET e == Len(h.errors) + 1
        t == Len(h.promises) + 1
        r == Len(h.promises) + 2
        h1 == [h EXCEPT !.errors = Append(@, [timedoutListener |-> Unknown])]
        h2 == NewPromise(h1, "pending", Undefined)
        h3 == [h2 EXCEPT !.timers = Append(@, [p |-> t, e |-> e, delay |-> delay, raced |-> p])]
        h4 == NewPromise(h3, "pending", Undefined)
        h5 == PromiseThen(h4, t, Reaction("adopt", r, 0, Undefined))
        h6 == PromiseThen(h5, p, Reaction("adopt", r, 0, Undefined))
    IN ReturnedPromise(h6, r)

----------------------------------------------------------------------------
\* create, remove, subscribe, next

\* create(opts): a new emitter with an empty table; returns its identity.
create(h, o, from) ==
    [h EXCEPT !.subscriptions = Append(@, <<>>),
              !.opts = Append(@, o),
              !.parent = Append(@, from)]

\* Mutant: the scan stops at the first entry, whatever its target.
IndexOfFirst(table, target) == IF Len(table) > 0 THEN 1 ELSE 0

\* The first index k with subscriptions[k].target == target, or 0.
IndexOf(table, target) ==
    IF \E k \in 1..Len(table) : table[k].target = target
    THEN CHOOSE k \in 1..Len(table) :
            /\ table[k].target = target
            /\ \A j \in 1..(k - 1) : table[j].target # target
    ELSE 0

\* subscriptions.splice(k, 1)
Splice(table, k) == SubSeq(table, 1, k - 1) \o SubSeq(table, k + 1, Len(table))

\* Mutant: removes the last entry of the table when target is not in it.
removeLast(h, em, target) ==
    LET table == h.subscriptions[em]
        k == IF IndexOf(table, target) = 0 THEN Len(table) ELSE IndexOf(table, target)
    IN IF k = 0 THEN Returned(h, Undefined)
       ELSE Returned([h EXCEPT !.subscriptions[em] = Splice(@, k)], Spliced(target))

\* for (k ...) if (subscriptions[k].target == target) return subscriptions.splice(k, 1)
remove(h, em, target) ==
    LET k == IndexOf(h.subscriptions[em], target) IN
    IF k = 0 THEN Returned(h, Undefined)
    ELSE Returned([h EXCEPT !.subscriptions[em] = Splice(@, k)], Spliced(target))

\* subscribe(listener) on emitter em; the LinkedObservable returned is the
\* child emitter's subscribe function, identified with the child.
subscribe(h, em, listener) ==
    LET child == Len(h.subscriptions) + 1
        h1 == create(h, [emitTimeout |-> <<>>], em)
    IN [h1 EXCEPT !.subscriptions[em] =
                      Append(@, [target |-> child, listener |-> listener]),
                  !.ret = [kind |-> "value", v |-> Undefined, p |-> child]]

Listener(name, kind, add, rm, obs, pred) ==
    [name |-> name, kind |-> kind, add |-> add, rm |-> rm, obs |-> obs,
     pred |-> pred, prom |-> 0, sub |-> 0]

\* next(predicate): a promise and a temporary subscription that resolves it.
next(h, em, predicate) ==
    LET n == Len(h.promises) + 1
        sub == Len(h.subscriptions) + 1
        h1 == NewPromise(h, "pending", Undefined)
        l == [Listener(sub, "next", 0, {}, em, predicate) EXCEPT
                 !.prom = n, !.sub = sub]
    IN ReturnedPromise(subscribe(h1, em, l), n)

----------------------------------------------------------------------------
\* Listeners. A listener is user code; the kinds below are the bodies the
\* repository's tests and documentation use:
\*   sync    v => v + add
\*   async   v => delay().then(() => v + add), settled later from outside
\*   throw   v => { throw new Error() }
\*   waiter  async v => { await obs.next(pred); return v + add }
\*   next    the listener next() itself subscribes (index.ts 170-175)
\*   cycle   v => delay().then(() => obs.emit(v + add)), obs an ancestor
\*   adder   v => { obs.subscribe(w => w + add); return v + add }
\* Before its body a user listener calls obs.remove(x) for every x in rm.

\* predicate == null || predicate(item), for the predicates t => t === n.
Predicate(pred, item) == pred = <<>> \/ (item.kind = "num" /\ item.n = pred[1])

RECURSIVE removeAll(_, _, _)
removeAll(h, em, targets) ==
    IF targets = {} THEN h
    ELSE LET x == CHOOSE y \in targets : TRUE
         IN removeAll(remove(h, em, x), em, targets \ {x})

\* Mutant: the listener fails on a value that does not satisfy the predicate.
nextListenerFails(h, l, item) ==
    IF Predicate(l.pred, item)
    THEN Returned(Settle(remove(h, l.obs, l.sub), l.prom, "fulfilled", item), Undefined)
    ELSE ReturnedPromise(NewPromise(h, "rejected", Error(l.sub)), Len(h.promises) + 1)

\* Mutant: the temporary subscription resolves the promise and stays.
nextListenerKeep(h, l, item) ==
    IF Predicate(l.pred, item)
    THEN Returned(Settle(h, l.prom, "fulfilled", item), Undefined)
    ELSE Returned(h, Undefined)

\* item => { if (predicate == null || predicate(item)) { remove(sub); resolve(item) } }
nextListener(h, l, item) ==
    IF Predicate(l.pred, item)
    THEN Returned(Settle(remove(h, l.obs, l.sub), l.prom, "fulfilled", item), Undefined)
    ELSE Returned(h, Undefined)

\* Mutant: the function returns without awaiting the promise of next().
waiterNoAwait(h, l, item) ==
    LET f == Len(h.promises) + 1
    IN ReturnedPromise(NewPromise(h, "fulfilled", Plus(item, l.add)), f)

\* async v => { await obs.next(pred); return v + add }, after obs.next(pred)
\* has returned promise h.ret.p: the function's own promise waits on it.
waiterAwait(h, l, item) ==
    LET f == Len(h.promises) + 1
    IN ReturnedPromise(
         PromiseThen(NewPromise(h, "pending", Undefined), h.ret.p,
                     Reaction("await", f, 0, Plus(item, l.add))), f)

\* v => delay(1).then(() => obs.emit(v + add)): the promise of delay, settled
\* later from outside, and the promise of then, which the listener returns.
cycleListener(h, l, item) ==
    LET dl == Len(h.promises) + 1
        q == dl + 1
        h1 == [NewPromise(h, "pending", Undefined) EXCEPT
                  !.work = @ \cup {[p |-> dl, v |-> Undefined]}]
    IN ReturnedPromise(
         PromiseThen(NewPromise(h1, "pending", Undefined), dl,
                     Reaction("reemit", q, l.obs, Plus(item, l.add))), q)

\* v => { obs.subscribe(w => w + add); return v + add }
adderListener(h, l, item) ==
    Returned(subscribe(h, l.obs, Listener(Len(h.subscriptions) + 1, "sync",
                                          l.add, {}, l.obs, <<>>)),
             Plus(item, l.add))

\* The body of a user listener, its removals done.
listenerBody(h, l, item) ==
    LET p == Len(h.promises) + 1
    IN CASE l.kind = "sync" -> Returned(h, Plus(item, l.add))
         [] l.kind = "throw" -> Thrown(h, Error(l.name))
         [] l.kind = "async" ->
              ReturnedPromise(
                [NewPromise(h, "pending", Undefined) EXCEPT
                    !.work = @ \cup {[p |-> p, v |-> Plus(item, l.add)]}], p)
         [] l.kind = "cycle" -> cycleListener(h, l, item)
         [] l.kind = "adder" -> adderListener(h, l, item)
         [] l.kind = "waiter" ->
              IF l.obs <= Len(h.subscriptions)
              THEN waiterAwait(next(h, l.obs, l.pred), l, item)
              ELSE ReturnedPromise(NewPromise(h, "rejected", TypeError), p)

\* listener(item): the heap after the call, with what it returned or threw.
Invoke(h, l, item) ==
    IF l.kind = "next" THEN nextListener(h, l, item)
    ELSE listenerBody(removeAll(h, l.obs, l.rm), l, item)

----------------------------------------------------------------------------
\* The subscription's emit closure (index.ts 186):
\*   item => Promise.resolve(listener(item)).then(emitter.emit)
\* id is the activation of emit that calls it.

Call(id, sub, item, p, d) ==
    [emit |-> id, listener |-> sub.listener, target |-> sub.target, t |-> item,
     p |-> p, d |-> d, e |-> 0, c |-> d]

\* Mutant: the listener's result is never forwarded.
thenEmitNever(h, sub, item, id, p) ==
    LET d == Len(h.promises) + 1
    IN ReturnedPromise(
         [NewPromise(h, "pending", Undefined)
            EXCEPT !.calls = Append(@, Call(id, sub, item, p, d))], d)

\* .then(emitter.emit) on promise p, the listener's result.
thenEmit(h, sub, item, id, p) ==
    LET d == Len(h.promises) + 1
    IN ReturnedPromise(
         [PromiseThen(NewPromise(h, "pending", Undefined), p,
                      Reaction("forward", d, sub.target, Undefined))
            EXCEPT !.calls = Append(@, Call(id, sub, item, p, d))], d)

\* Promise.resolve(x) of what the listener returned, left in h.ret.
promiseResolve(h, sub, item, id) ==
    IF h.ret.kind = "throw"
    THEN [h EXCEPT !.calls = Append(@, Call(id, sub, item, 0, 0))]
    ELSE IF h.ret.kind = "value"
    THEN thenEmit(NewPromise(h, "fulfilled", h.ret.v), sub, item, id,
                  Len(h.promises) + 1)
    ELSE thenEmit(h, sub, item, id, h.ret.p)

subscriptionEmit(h, sub, item, id) ==
    promiseResolve(Invoke(h, sub.listener, item), sub, item, id)

----------------------------------------------------------------------------
\* emit(t) of emitter em (index.ts 148-166). cause is the promise of the
\* table entry whose listener's result is being forwarded, 0 for a call
\* from outside, -q for a call by the listener callback whose promise is q.

NoSubscription == [target |-> 0, listener |-> Listener(0, "none", 0, {}, 0, <<>>)]

\* emitPromise = timeout(emitPromise, opts.emitTimeout).catch(e => ...), after
\* timeout has returned the race h.ret.p.
catchTimeout(h, id) ==
    LET c == Len(h.promises) + 1
    IN ReturnedPromise(
         [PromiseThen(NewPromise(h, "pending", Undefined), h.ret.p,
                      Reaction("catch", c, id, Undefined))
            EXCEPT !.calls[Len(h.calls)].e = Len(h.errors),
                   !.calls[Len(h.calls)].c = c], c)

\* if (opts.emitTimeout != null) ..., with current.emit(t) in h.ret.p.
emitPromise(h, em, id) ==
    IF h.opts[em].emitTimeout # <<>>
    THEN catchTimeout(timeout(h, h.ret.p, h.opts[em].emitTimeout[1]), id)
    ELSE h

\* Mutant: ++k whether or not the entry was removed.
nextIndexAlways(table, k, current) == k + 1

\* if (current === subscriptions[k]) ++k
nextIndex(table, k, current) ==
    IF k <= Len(table) /\ table[k] = current THEN k + 1 ELSE k

RECURSIVE emitLoop(_, _, _, _, _)

\* Mutant: the next turn is always at k + 1.
emitPushAlways(h, em, id, k, results) ==
    emitLoop(h, em, id, k + 1, Append(results, h.ret.p))

\* results.push(emitPromise), with emitPromise in h.ret.p, and the next turn.
emitPush(h, em, id, k, results) ==
    emitLoop(h, em, id, nextIndex(h.subscriptions[em], k, h.emits[id].current),
             Append(results, h.ret.p))

\* The rest of a turn of the loop, current.emit(t) having returned or thrown.
emitTurn(h, em, id, k, results) ==
    IF h.ret.kind = "throw"
    THEN [h EXCEPT !.emits[id].outcome = "threw", !.emits[id].thrown = h.ret.v]
    ELSE emitPush(emitPromise(h, em, id), em, id, k, results)

\* return helpers.waitAll(results), with the promise in h.ret.p.
emitReturn(h, em, id) ==
    [h EXCEPT !.emits[id].outcome = "returned", !.emits[id].result = h.ret.p,
              !.emits[id].after = h.subscriptions[em]]

\* Mutant: the loop runs to the length the table had when emit was called.
emitLoopSnapshot(h, em, id, k, results) ==
    IF ~(k <= Len(h.emits[id].before) /\ k <= Len(h.subscriptions[em]))
    THEN emitReturn(waitAll(h, results), em, id)
    ELSE emitTurn(subscriptionEmit([h EXCEPT !.emits[id].current = h.subscriptions[em][k]],
                                   h.subscriptions[em][k], h.emits[id].t, id),
                  em, id, k, results)

\* for (var k = 0; k < subscriptions.length; k) { ... }; return waitAll(results)
emitLoop(h, em, id, k, results) ==
    IF ~(k <= Len(h.subscriptions[em]))
    THEN emitReturn(waitAll(h, results), em, id)
    ELSE emitTurn(subscriptionEmit([h EXCEPT !.emits[id].current = h.subscriptions[em][k]],
                                   h.subscriptions[em][k], h.emits[id].t, id),
                  em, id, k, results)

\* The record of a new activation of emit.
Activation(h, em, t, cause) ==
    [em |-> em, t |-> t, cause |-> cause, current |-> NoSubscription,
     outcome |-> "running", result |-> 0, thrown |-> Undefined,
     before |-> h.subscriptions[em], after |-> <<>>]

\* Mutant: the traversal starts at the second entry.
emitFromSecond(h, em, t, cause) ==
    emitLoop([h EXCEPT !.emits = Append(@, Activation(h, em, t, cause))],
             em, Len(h.emits) + 1, 2, <<>>)

emit(h, em, t, cause) ==
    emitLoop([h EXCEPT !.emits = Append(@, Activation(h, em, t, cause))],
             em, Len(h.emits) + 1, 1, <<>>)

----------------------------------------------------------------------------
\* One promise reaction job.

\* e => { if (e.timedoutListener === '<unknown>')
\*          e.timedoutListener = String(current.listener); throw e }
\* `current` is the var of the emit activation id, read when the handler runs.
catchHandler(h, id, e) ==
    IF e.kind = "undefined" THEN Thrown(h, TypeError)
    ELSE IF e.kind = "TimeoutError" /\ h.errors[e.n].timedoutListener = Unknown
    THEN Thrown([h EXCEPT !.errors[e.n].timedoutListener =
                             h.emits[id].current.listener.name], e)
    ELSE Thrown(h, e)

\* The promise d of .then(emitter.emit), emitter.emit having returned the
\* promise h.ret.p or thrown: d is resolved with that promise, which queues
\* the job that calls its then, or rejected with what was thrown.
forwarded(h, d) ==
    IF h.ret.kind = "throw" THEN Settle(h, d, "rejected", h.ret.v)
    ELSE [h EXCEPT !.microtasks =
            Append(@, Job(Reaction("thenable", d, h.ret.p, Undefined),
                          "fulfilled", Undefined))]

\* The promise d of .catch(handler), the handler having thrown h.ret.v.
caught(h, d) == Settle(h, d, "rejected", h.ret.v)

\* Mutant: the listener calls emit and does not return its promise.
reemitDetached(h, q, em, t) ==
    Settle(emit(h, em, t, 0 - q), q, "fulfilled", Undefined)

\* () => obs.emit(v + add), the callback of then whose promise is q: q is
\* resolved with the promise emit returns. The activation's cause is -q.
reemit(h, q, em, t) == forwarded(emit(h, em, t, 0 - q), q)

RunJob(h, job) ==
    CASE job.r.kind = "forward" ->
           IF job.state = "rejected" THEN Settle(h, job.r.d, "rejected", job.value)
           ELSE forwarded(emit(h, job.r.a, job.value, job.r.d), job.r.d)
      [] job.r.kind = "thenable" ->
           PromiseThen(h, job.r.a, Reaction("adopt", job.r.d, 0, Undefined))
      [] job.r.kind = "adopt" -> Settle(h, job.r.d, job.state, job.value)
      [] job.r.kind = "catch" ->
           IF job.state = "fulfilled" THEN Settle(h, job.r.d, "fulfilled", job.value)
           ELSE caught(catchHandler(h, job.r.a, job.value), job.r.d)
      [] job.r.kind = "count" -> waitAllSettled(h, job.r.d, job.state, job.value)
      [] job.r.kind = "reemit" ->
           IF job.state = "rejected" THEN Settle(h, job.r.d, "rejected", job.value)
           ELSE reemit(h, job.r.d, job.r.a, job.r.v)
      [] job.r.kind = "await" ->
           IF job.state = "fulfilled" THEN Settle(h, job.r.d, "fulfilled", job.r.v)
           ELSE Settle(h, job.r.d, "rejected", job.value)

----------------------------------------------------------------------------
\* The state machine.

Emitters == 1..Len(subscriptions)
Values == 0..MaxValue
Root == 1

Commit(h) ==
    /\ subscriptions' = h.subscriptions
    /\ opts' = h.opts
    /\ parent' = h.parent
    /\ promises' = h.promises
    /\ microtasks' = h.microtasks
    /\ timers' = h.timers
    /\ errors' = h.errors
    /\ work' = h.work
    /\ emits' = h.emits
    /\ calls' = h.calls
    /\ fired' = h.fired
    /\ removes' = h.removes
    /\ waits' = h.waits

\* The exploration stops growing the tree at MaxWaitEmitters emitters, and
\* MaxWaits more that listeners add by calling next().
Fits(h) == Len(h.subscriptions) <= MaxWaitEmitters + MaxWaits

CommitIfFits(h) == Fits(h) /\ Commit(h)

\* create(opts): the root emitter, with or without emitTimeout.
InitWith(o) ==
    /\ subscriptions = << <<>> >>
    /\ opts = << [emitTimeout |-> o] >>
    /\ parent = <<0>>
    /\ promises = <<>>
    /\ microtasks = <<>>
    /\ timers = <<>>
    /\ errors = <<>>
    /\ work = {}
    /\ emits = <<>>
    /\ calls = <<>>
    /\ fired = {}
    /\ removes = <<>>
    /\ waits = <<>>

Init == \E o \in {<<>>, <<EmitTimeout>>} : InitWith(o)

\* em.subscribe(listener) called from outside. The k-th listener of a table
\* adds k (v => v + 1, v => v + 2, as in the tests) and is named after the
\* observable its subscription returns.
SubscribeUpTo(em, kind, rm, obs, pred, max) ==
    /\ Len(subscriptions) < max
    /\ Commit(subscribe(Heap, em, Listener(Len(subscriptions) + 1, kind,
                                           Len(subscriptions[em]) + 1, rm, obs, pred)))

Subscribe(em, kind, rm, obs, pred) ==
    SubscribeUpTo(em, kind, rm, obs, pred, MaxEmitters)

\* The call of remove that returned with heap h, added to the record.
Removal(h, op, em, target) ==
    [h EXCEPT !.removes = Append(@, [op |-> op, em |-> em, target |-> target,
                                     before |-> subscriptions,
                                     after |-> h.subscriptions,
                                     ret |-> h.ret])]

\* Observable target is the subscription next() made for itself, which it
\* returns to nobody.
IsTemporary(target) ==
    \/ \E em \in Emitters : \E k \in 1..Len(subscriptions[em]) :
          /\ subscriptions[em][k].target = target
          /\ subscriptions[em][k].listener.kind = "next"
    \/ \E c \in 1..Len(calls) :
          calls[c].target = target /\ calls[c].listener.kind = "next"

\* em.remove(target) called from outside, target an observable returned
\* by subscribe.
Remove(em, target) ==
    /\ Len(removes) < MaxRemoves
    /\ parent[target] # 0 /\ ~IsTemporary(target)
    /\ Commit(Removal(remove(Heap, em, target), "remove", em, target))

\* target.unlink() called from outside: parent.remove(target).
Unlink(target) ==
    /\ Len(removes) < MaxRemoves
    /\ parent[target] # 0 /\ ~IsTemporary(target)
    /\ Commit(Removal(remove(Heap, parent[target], target), "unlink",
                       parent[target], target))

\* em.next(predicate) called from outside.
NextCallUpTo(em, pred, max) ==
    /\ Len(subscriptions) < max
    /\ Commit(next(Heap, em, pred))

NextCall(em, pred) == NextCallUpTo(em, pred, MaxEmitters)

\* root.emit(t) called from outside, at most max times.
EmitUpTo(t, max) ==
    /\ Cardinality({i \in 1..Len(emits) : emits[i].cause = 0}) < max
    /\ CommitIfFits(emit(Heap, Root, Num(t), 0))

Emit(t) == EmitUpTo(t, MaxEmits)

\* Mutant: the event loop runs the newest microtask.
RunMicrotaskLast ==
    /\ microtasks # <<>>
    /\ CommitIfFits(RunJob([Heap EXCEPT !.microtasks = SubSeq(@, 1, Len(@) - 1)],
                           microtasks[Len(microtasks)]))

\* The event loop runs the oldest microtask.
RunMicrotask ==
    /\ microtasks # <<>>
    /\ CommitIfFits(RunJob([Heap EXCEPT !.microtasks = Tail(@)], Head(microtasks)))

\* An asynchronous listener's promise resolves.
Resolve(w) ==
    /\ microtasks = <<>>
    /\ Commit(Settle([Heap EXCEPT !.work = @ \ {w}], w.p, "fulfilled", w.v))

\* The same, while fewer than max activations of emit have started.
ResolveUpTo(w, max) ==
    /\ Len(emits) < max
    /\ Resolve(w)

\* An asynchronous listener's promise rejects, with an Error or with nothing
\* (reject() called without a reason).
Reject(w, reason) ==
    /\ microtasks = <<>>
    /\ Commit(Settle([Heap EXCEPT !.work = @ \ {w}], w.p, "rejected", reason))

\* The oldest timer of timeout() fires: rej(e). All timers of one emitter
\* have the same delay, so they fire in the order they were set.
TimerFire ==
    /\ microtasks = <<>>
    /\ timers # <<>>
    /\ Commit(Settle([Heap EXCEPT
                         !.timers = Tail(@),
                         !.fired = @ \cup {[e |-> Head(timers).e,
                                            late |-> promises[Head(timers).raced].state
                                                       = "pending"]}],
                     Head(timers).p, "rejected", TimeoutError(Head(timers).e)))

Next ==
    \/ \E em \in Emitters, kind \in {"sync", "async", "throw"} :
          Subscribe(em, kind, {}, em, <<>>)
    \/ \E t \in Values : Emit(t)
    \/ RunMicrotask
    \/ \E w \in work : Resolve(w)
    \/ \E w \in work : \E reason \in {Error(w.p), Undefined} : Reject(w, reason)
    \/ TimerFire

Spec == Init /\ [][Next]_vars

\* The emitter with listeners that remove subscriptions of their own table
\* while they are called.
Targets == 2..MaxEmitters
WaitTargets == 2..MaxWaitEmitters

NextRemove ==
    \/ \E em \in Emitters, rm \in SUBSET Targets : Subscribe(em, "sync", rm, em, <<>>)
    \/ \E t \in Values : Emit(t)
    \/ RunMicrotask

SpecRemove == InitWith(<<>>) /\ [][NextRemove]_vars

\* The emitter with next() called from outside, beside synchronous listeners.
Predicates == {<<>>} \cup {<<v>> : v \in Values}

NextNext ==
    \/ \E pred \in Predicates : NextCall(Root, pred)
    \/ \E em \in Emitters : Subscribe(em, "sync", {}, em, <<>>)
    \/ \E t \in Values : EmitUpTo(t, MaxNextEmits)
    \/ RunMicrotask

SpecNext == InitWith(<<>>) /\ [][NextNext]_vars

\* The root with listeners that await next() of another observable, and the
\* derived observables with synchronous listeners (push, in the tests).
NextWaiter ==
    \/ \E kind \in {"sync", "async"} :
          SubscribeUpTo(Root, kind, {}, Root, <<>>, MaxWaitEmitters)
    \/ \E obs \in WaitTargets :
          SubscribeUpTo(Root, "waiter", {}, obs, <<>>, MaxWaitEmitters)
    \/ \E em \in Emitters \ {Root} :
          SubscribeUpTo(em, "sync", {}, em, <<>>, MaxWaitEmitters)
    \/ \E t \in Values : Emit(t)
    \/ RunMicrotask
    \/ \E w \in work : Resolve(w)

SpecWaiter == InitWith(<<>>) /\ [][NextWaiter]_vars

\* remove and unlink called from outside, on any emitter and observable of
\* the tree, between subscribe and emit.
NextUnlink ==
    \/ \E em \in Emitters : Subscribe(em, "sync", {}, em, <<>>)
    \/ \E em \in Emitters, target \in Emitters : Remove(em, target)
    \/ \E target \in Emitters : Unlink(target)
    \/ \E t \in Values : Emit(t)
    \/ RunMicrotask

SpecUnlink == InitWith(<<>>) /\ [][NextUnlink]_vars

\* Any sequence of subscribe, next, remove, unlink and emit on the emitters
\* of the tree, the root with or without emitTimeout.
NextTable ==
    \/ \E em \in Emitters : SubscribeUpTo(em, "sync", {}, em, <<>>, MaxTableEmitters)
    \/ \E em \in Emitters, pred \in Predicates : NextCallUpTo(em, pred, MaxTableEmitters)
    \/ \E em \in Emitters, target \in Emitters : Remove(em, target)
    \/ \E target \in Emitters : Unlink(target)
    \/ \E t \in Values : Emit(t)
    \/ RunMicrotask
    \/ TimerFire

SpecTable == Init /\ [][NextTable]_vars

\* helpers.waitAll called from outside on inputs that are pending, fulfilled
\* or rejected at the call; input i is fulfilled with i or rejected with
\* Error(i).
RECURSIVE NewInputs(_, _, _)
NewInputs(h, states, k) ==
    IF k > Len(states) THEN h
    ELSE NewInputs(NewPromise(h, states[k],
                              IF states[k] = "fulfilled" THEN Num(k)
                              ELSE IF states[k] = "rejected" THEN Error(k)
                              ELSE Undefined),
                   states, k + 1)

InputStates == {"pending", "fulfilled", "rejected"}

\* The record of the call of waitAll that returned with heap h.
Waited(h, states) ==
    [h EXCEPT !.waits = Append(@, [inputs |-> [k \in 1..Len(states) |-> Len(promises) + k],
                                   early |-> states,
                                   result |-> h.ret.p,
                                   order |-> <<>>])]

WaitAllCall(states) ==
    /\ Len(waits) < MaxWaitAlls
    /\ Commit(Waited(waitAll(NewInputs(Heap, states, 1),
                              [k \in 1..Len(states) |-> Len(promises) + k]),
                      states))

\* Input k of call i settles.
SettleInput(i, k, state) ==
    /\ promises[waits[i].inputs[k]].state = "pending"
    /\ Commit(Settle([Heap EXCEPT !.waits[i].order = Append(@, k)],
                      waits[i].inputs[k], state,
                      IF state = "fulfilled" THEN Num(k) ELSE Error(k)))

NextWaitAll ==
    \/ \E n \in 0..MaxInputs : \E states \in [1..n -> InputStates] : WaitAllCall(states)
    \/ \E i \in 1..Len(waits) : \E k \in 1..Len(waits[i].inputs) :
          \E state \in {"fulfilled", "rejected"} : SettleInput(i, k, state)
    \/ RunMicrotask

SpecWaitAll == InitWith(<<>>) /\ [][NextWaitAll]_vars

\* Listeners that subscribe, or call next(), on the observable they are
\* subscribed to, while they are called.
NextDuring ==
    \/ \E em \in Emitters : Subscribe(em, "sync", {}, em, <<>>)
    \/ \E em \in Emitters, pred \in Predicates : Subscribe(em, "waiter", {}, em, pred)
    \/ \E em \in Emitters : Subscribe(em, "adder", {}, em, <<>>)
    \/ \E t \in Values : Emit(t)
    \/ RunMicrotask

SpecDuring == InitWith(<<>>) /\ [][NextDuring]_vars

\* The wiring of the test 'cycles': listeners that emit on the root again,
\* on a root with or without emitTimeout.
NextCycle ==
    \/ \E kind \in {"sync", "async"} :
          SubscribeUpTo(Root, kind, {}, Root, <<>>, MaxCycleEmitters)
    \/ \E em \in Emitters \ {Root} :
          SubscribeUpTo(em, "cycle", {}, Root, <<>>, MaxCycleEmitters)
    \/ \E t \in Values : Emit(t)
    \/ RunMicrotask
    \/ \E w \in work : ResolveUpTo(w, MaxActivations)
    \/ TimerFire

SpecCycle == Init /\ [][NextCycle]_vars

\* The event loop runs every job and every timer that is due. RunMicrotask
\* is enabled exactly while the queue is not empty, so its weak fairness is
\* that the queue is empty again and again.
SpecCycleFair == SpecCycle /\ []<>(microtasks = <<>>) /\ WF_vars(TimerFire)

----------------------------------------------------------------------------
\* What the claims speak of.

EmitIds == 1..Len(emits)
CallIds == 1..Len(calls)
CallsOf(e) == {c \in CallIds : calls[c].emit = e}
\* The emit activations that forwarded the result of call c.
ChildEmits(c) == {e \in EmitIds : calls[c].d # 0 /\ emits[e].cause = calls[c].d}
IsState(p, state) == p # 0 /\ promises[p].state = state
Returned_(e) == emits[e].outcome = "returned"
EmitFulfilled(e) == Returned_(e) /\ IsState(emits[e].result, "fulfilled")
EmitRejected(e) == Returned_(e) /\ IsState(emits[e].result, "rejected")
FromOutside(e) == emits[e].cause = 0
Quiescent == microtasks = <<>>
\* The calls of activation e, in the order they were made.
IsCallOf(c, e) == c.emit = e
CallSeq(e) == SelectSeq(calls, LAMBDA c : IsCallOf(c, e))
AllOfKind(table, kinds) == \A k \in 1..Len(table) : table[k].listener.kind \in kinds

RECURSIVE TreeDone(_)
\* Every listener reached from activation e, directly or by forwarding, has
\* settled successfully, and so has every emit on the way.
TreeDone(e) ==
    /\ EmitFulfilled(e)
    /\ \A c \in CallsOf(e) :
          /\ IsState(calls[c].p, "fulfilled")
          /\ \E e2 \in ChildEmits(c) : TreeDone(e2)

\* C1: transitive wait. The promise returned by emit on the root is not
\* fulfilled before every direct listener's result is fulfilled and every
\* listener reached by forwarding those results, recursively, is fulfilled.
C1_TransitiveWait ==
    \A e \in EmitIds : (FromOutside(e) /\ EmitFulfilled(e)) => TreeDone(e)

\* A root emit is fulfilled whose listener A and A's subscriber B were both
\* asynchronous.
C1_Witness ==
    \E e \in EmitIds :
       /\ FromOutside(e) /\ EmitFulfilled(e)
       /\ \E c \in CallsOf(e) : \E e2 \in ChildEmits(c) : \E c2 \in CallsOf(e2) :
             calls[c].listener.kind = "async" /\ calls[c2].listener.kind = "async"

\* C2: fan-out completeness. When emit on a table of N synchronous listeners
\* is fulfilled, its calls are exactly the N entries, each once, with the
\* emitted value, in the order of the table.
C2_FanOutComplete ==
    \A e \in EmitIds :
       (EmitFulfilled(e) /\ AllOfKind(emits[e].before, {"sync"})) =>
          LET cs == CallSeq(e) IN
          /\ Len(cs) = Len(emits[e].before)
          /\ \A i \in 1..Len(cs) :
                /\ cs[i].target = emits[e].before[i].target
                /\ cs[i].t = emits[e].t

\* A root emit over three synchronous listeners is fulfilled.
C2_Witness ==
    \E e \in EmitIds :
       /\ FromOutside(e) /\ EmitFulfilled(e)
       /\ Len(emits[e].before) = 3 /\ AllOfKind(emits[e].before, {"sync"})

ValueOf(p) == promises[p].value
Timed(e) == opts[emits[e].em].emitTimeout # <<>>
\* The timer of call c's race fired while the raced promise was pending.
FiredLate(c) == [e |-> calls[c].e, late |-> TRUE] \in fired

\* C3: timeout attribution. When emit has failed with a TimeoutError and the
\* timers have fired, the error's timedoutListener is the listener of an
\* entry of that emit whose race timed out, not of one that settled in time.
C3_TimeoutAttribution ==
    \A e \in EmitIds :
       (/\ EmitRejected(e) /\ ValueOf(emits[e].result).kind = "TimeoutError"
        /\ timers = <<>>) =>
          \E c \in CallsOf(e) :
             /\ FiredLate(c)
             /\ errors[ValueOf(emits[e].result).n].timedoutListener
                   = calls[c].listener.name

\* C4: timeout race outcome, at the states where no reaction job is left.
\* If the timer of an entry fired while the entry's promise was pending, emit
\* is rejected, with a TimeoutError unless an entry had failed; if every
\* entry's promise is fulfilled and no timer fired before its entry's promise
\* settled, emit is fulfilled, whether or not the timers have fired since.
C4_TimeoutRace ==
    \A e \in EmitIds :
       (Quiescent /\ Returned_(e) /\ Timed(e)) =>
          /\ (\E c \in CallsOf(e) : FiredLate(c)) =>
                /\ EmitRejected(e)
                /\ \/ ValueOf(emits[e].result).kind = "TimeoutError"
                   \/ \E c \in CallsOf(e) : IsState(calls[c].d, "rejected")
          /\ (\A c \in CallsOf(e) :
                 IsState(calls[c].d, "fulfilled") /\ ~FiredLate(c)) =>
                EmitFulfilled(e)

\* The timer of a pending asynchronous listener fired and emit is rejected
\* with its TimeoutError.
C4_Witness ==
    \E e \in EmitIds : \E c \in CallsOf(e) :
       /\ Quiescent /\ FiredLate(c) /\ calls[c].listener.kind = "async"
       /\ EmitRejected(e)
       /\ ValueOf(emits[e].result) = TimeoutError(calls[c].e)

\* The calls whose forwarded result activation e emits.
ParentCalls(e) == {c \in CallIds : emits[e].cause # 0 /\ calls[c].d = emits[e].cause}
\* Value x is the failure of another entry of activation e than call c: the
\* TimeoutError of a race, or what another entry's promise was rejected with.
OtherFailure(e, c, x) ==
    \/ x.kind = "TimeoutError"
    \/ \E c2 \in CallsOf(e) \ {c} :
          IsState(calls[c2].d, "rejected") /\ ValueOf(calls[c2].d) = x

RECURSIVE FailsUp(_, _)
\* The emit that made call c, and every emit above it, is rejected with x,
\* unless it was rejected with another entry's failure or threw.
FailsUp(c, x) ==
    LET e == calls[c].emit IN
    \/ emits[e].outcome = "threw"
    \/ /\ EmitRejected(e)
       /\ \/ ValueOf(emits[e].result) = x
          \/ OtherFailure(e, c, ValueOf(emits[e].result))
       /\ \A cp \in ParentCalls(e) : FailsUp(cp, ValueOf(emits[e].result))

\* C9: listener failure. If a listener's promise is rejected with x, its
\* result is never forwarded (no emit on the entry's child), and, once the
\* reaction jobs have run, the enclosing emit and every emit above it is
\* rejected with exactly x, with or without emitTimeout.
C9_ListenerFailure ==
    \A c \in CallIds :
       IsState(calls[c].p, "rejected") =>
          /\ ChildEmits(c) = {}
          /\ Quiescent => FailsUp(c, ValueOf(calls[c].p))

\* C10: synchronous throw. emit never throws to its caller: every
\* activation returns a promise, every entry of the table is called, and a
\* listener that threw makes the returned promise fail with what it threw.
C10_SyncThrowContained ==
    \A e \in EmitIds :
       /\ Returned_(e)
       /\ \A k \in 1..Len(emits[e].before) :
             \E c \in CallsOf(e) : calls[c].target = emits[e].before[k].target
       /\ \A c \in CallsOf(e) :
             (calls[c].listener.kind = "throw" /\ Quiescent) => EmitRejected(e)

CallsOfTarget(e, target) == {c \in CallsOf(e) : calls[c].target = target}

\* C5: removal safety. Whatever the listeners removed while emit called
\* them, every subscription still in the table when emit returns was called
\* exactly once by that emit.
C5_RemovalSafety ==
    \A e \in EmitIds :
       Returned_(e) =>
          \A k \in 1..Len(emits[e].after) :
             Cardinality(CallsOfTarget(e, emits[e].after[k].target)) = 1

\* The calls of the temporary subscription sub of next().
NextCalls(sub) ==
    {c \in CallIds : calls[c].listener.kind = "next" /\ calls[c].listener.sub = sub}
\* Call c gave its listener's predicate a value that satisfies it.
Matches(c) == Predicate(calls[c].listener.pred, calls[c].t)
\* The positions of table that hold a temporary subscription of next().
NextEntries(table) == {k \in 1..Len(table) : table[k].listener.kind = "next"}
\* The temporary subscriptions of table that value t satisfies.
Matching(table, t) ==
    {k \in NextEntries(table) : Predicate(table[k].listener.pred, t)}

\* C6: next(p). The promise of next(p) is fulfilled with the first value
\* emitted after the call that satisfies p (any value without p), and by then
\* the temporary subscription is out of the table and is never called again;
\* values that do not satisfy p leave the promise pending and the subscription
\* in place; every emit calls each temporary subscription of the table once,
\* and leaves the table shorter by exactly those it resolved.
C6_NextResolves ==
    /\ \A c \in CallIds :
          (calls[c].listener.kind = "next" /\ Matches(c)) =>
             LET l == calls[c].listener IN
             /\ IsState(l.prom, "fulfilled") /\ ValueOf(l.prom) = calls[c].t
             /\ IndexOf(subscriptions[l.obs], l.sub) = 0
             /\ \A c2 \in NextCalls(l.sub) \ {c} : c2 < c /\ ~Matches(c2)
    /\ \A em \in Emitters : \A k \in NextEntries(subscriptions[em]) :
          LET l == subscriptions[em][k].listener IN
          /\ IsState(l.prom, "pending")
          /\ \A c \in NextCalls(l.sub) : ~Matches(c)
    /\ \A e \in EmitIds :
          Returned_(e) =>
             /\ \A k \in NextEntries(emits[e].before) :
                   Cardinality(CallsOfTarget(e, emits[e].before[k].target)) = 1
             /\ Len(emits[e].after) = Len(emits[e].before)
                   - Cardinality(Matching(emits[e].before, emits[e].t))

\* After emit(0) and emit(1): next(t => t === 1) was called with 0, stayed
\* pending, then was fulfilled with 1; next() without predicate was fulfilled
\* with 0 and the second emit did not call it.
C6_Witness ==
    /\ Quiescent
    /\ \E c \in CallIds : \E c2 \in NextCalls(calls[c].listener.sub) :
          /\ calls[c].listener.kind = "next" /\ calls[c].listener.pred = <<1>>
          /\ c2 < c /\ calls[c2].t = Num(0) /\ calls[c].t = Num(1)
          /\ IsState(calls[c].listener.prom, "fulfilled")
          /\ ValueOf(calls[c].listener.prom) = Num(1)
          /\ IndexOf(subscriptions[Root], calls[c].listener.sub) = 0
    /\ \E c \in CallIds :
          /\ calls[c].listener.kind = "next" /\ calls[c].listener.pred = <<>>
          /\ calls[c].t = Num(0) /\ NextCalls(calls[c].listener.sub) = {c}
          /\ \E e \in EmitIds :
                /\ FromOutside(e) /\ e > calls[c].emit /\ Returned_(e)
                /\ emits[e].t = Num(1) /\ CallsOfTarget(e, calls[c].target) = {}

RECURSIVE RootOf(_)
\* The emit from outside whose forwarding led to activation e.
RootOf(e) ==
    IF FromOutside(e) THEN e
    ELSE RootOf(calls[CHOOSE c \in ParentCalls(e) : TRUE].emit)
\* No temporary subscription of next() is left in any table.
NoNextLeft == \A em \in Emitters : NextEntries(subscriptions[em]) = {}
\* No listener's promise has failed.
NoFailure == \A c \in CallIds : ~IsState(calls[c].p, "rejected")
\* Activation e found two or more temporary subscriptions that its value
\* satisfies in the table.
SeveralMatch(e) ==
    Returned_(e) /\ Cardinality(Matching(emits[e].before, emits[e].t)) >= 2

\* C7: several waiters. When an emit finds several temporary subscriptions
\* of next() in the table and its value satisfies them all, each of their
\* promises is fulfilled with that value by that one emit, each was called
\* exactly once, none is in the table afterwards, and the emit from outside
\* that led to it is fulfilled once nothing is left to run.
C7_SeveralWaiters ==
    \A e \in EmitIds :
       SeveralMatch(e) =>
          /\ \A k \in Matching(emits[e].before, emits[e].t) :
                LET sub == emits[e].before[k] IN
                /\ IsState(sub.listener.prom, "fulfilled")
                /\ ValueOf(sub.listener.prom) = emits[e].t
                /\ Cardinality(CallsOfTarget(e, sub.target)) = 1
                /\ IndexOf(emits[e].after, sub.target) = 0
                /\ IndexOf(subscriptions[emits[e].em], sub.target) = 0
          /\ (Quiescent /\ work = {} /\ NoNextLeft /\ NoFailure) =>
                EmitFulfilled(RootOf(e))

\* Two listeners of the root awaited next() of the same derived observable,
\* one forwarded value resolved both, and the root's emit is fulfilled.
C7_Witness ==
    \E e \in EmitIds :
       /\ SeveralMatch(e) /\ ~FromOutside(e)
       /\ Quiescent /\ work = {} /\ NoNextLeft
       /\ EmitFulfilled(RootOf(e))
       /\ Cardinality({c \in CallsOf(RootOf(e)) :
                          /\ calls[c].listener.kind = "waiter"
                          /\ calls[c].listener.obs = emits[e].em
                          /\ IsState(calls[c].p, "fulfilled")}) >= 2

\* The promise of next() that call c of an awaiting listener waits on: the
\* one made just before the listener's own promise.
WaitOf(c) == calls[c].p - 1
\* In activation e of the root, call c2 is of a listener that awaits next()
\* of the observable derived from the listener of call c1.
SiblingWait(e, c1, c2) ==
    /\ FromOutside(e) /\ c1 \in CallsOf(e) /\ c2 \in CallsOf(e)
    /\ calls[c1].listener.kind \in {"sync", "async"}
    /\ calls[c2].listener.kind = "waiter"
    /\ calls[c2].listener.obs = calls[c1].target
\* Activation e is the only emit from outside.
OnlyEmit(e) == {x \in EmitIds : FromOutside(x)} = {e}
\* Every awaiting listener called by activation e awaits a sibling whose
\* listener does not await.
SiblingsOnly(e) ==
    \A c \in CallsOf(e) :
       calls[c].listener.kind = "waiter" => \E c1 \in CallsOf(e) : SiblingWait(e, c1, c)
\* Activation e has called every entry its table had.
CalledAll(e) ==
    /\ Returned_(e)
    /\ \A k \in 1..Len(emits[e].before) :
          CallsOfTarget(e, emits[e].before[k].target) # {}

\* C8: waiting on a sibling inside one emission. If root listener L2 awaits
\* A.next(), A derived from root listener L1, then within one emit of the
\* root: the wait is fulfilled with L1's result and L2 does not return
\* before; L2's result is emitted only after the emit of L1's result on A
\* has called all of A's subscribers; and once nothing is left to run the
\* root's emit is fulfilled, in either order of registration.
C8_SiblingWait ==
    \A e \in EmitIds : \A c1, c2 \in CallIds :
       (SiblingWait(e, c1, c2) /\ OnlyEmit(e)) =>
          /\ IsState(WaitOf(c2), "fulfilled") =>
                /\ IsState(calls[c1].p, "fulfilled")
                /\ ValueOf(WaitOf(c2)) = ValueOf(calls[c1].p)
                /\ ValueOf(WaitOf(c2)) = Plus(emits[e].t, calls[c1].listener.add)
          /\ IsState(calls[c2].p, "fulfilled") => IsState(WaitOf(c2), "fulfilled")
          /\ \A e2 \in ChildEmits(c2) : \E e1 \in ChildEmits(c1) :
                /\ e1 < e2 /\ CalledAll(e1)
                /\ \A x \in CallsOf(e1), y \in CallsOf(e2) : x < y
          /\ (Quiescent /\ work = {} /\ SiblingsOnly(e)) => EmitFulfilled(e)

\* The shape of the test 'basic' at its end, for the order of registration
\* given by first: the awaiting listener and an asynchronous sibling, a
\* subscriber on each derived observable, called with 1 and then with 2.
BasicDone(e, c1, c2) ==
    /\ SiblingWait(e, c1, c2) /\ calls[c1].listener.kind = "async"
    /\ Quiescent /\ EmitFulfilled(e)
    /\ \E e1 \in ChildEmits(c1), e2 \in ChildEmits(c2) :
          \E x \in CallsOf(e1), y \in CallsOf(e2) :
             /\ calls[x].listener.kind = "sync" /\ calls[y].listener.kind = "sync"
             /\ x < y

\* The awaiting listener was registered before its sibling.
C8_Witness ==
    \E e \in EmitIds : \E c1, c2 \in CallIds : BasicDone(e, c1, c2) /\ c2 < c1

RECURSIVE HasCycleCall(_)
\* Activation e has reached, directly or by forwarding, a listener that
\* emits on the root again.
HasCycleCall(e) ==
    \E c \in CallsOf(e) :
       \/ calls[c].listener.kind = "cycle"
       \/ \E e2 \in ChildEmits(c) : HasCycleCall(e2)
\* Activation e is an emit of the root that has reached such a listener.
Cyclic(e) == e \in EmitIds /\ emits[e].em = Root /\ HasCycleCall(e)
\* The timer of call c's race has not fired yet.
TimerPending(c) == \E i \in 1..Len(timers) : timers[i].e = calls[c].e
\* Activation e has failed with a TimeoutError.
TimedOut(e) ==
    EmitRejected(e) /\ ValueOf(emits[e].result).kind = "TimeoutError"
\* Without emitTimeout a cyclic emit of the root is pending; with it, the
\* emit is pending or failed with a TimeoutError, and has failed once its
\* timers have fired and the jobs have run.
CyclicSettles ==
    \A e \in EmitIds :
       Cyclic(e) =>
          /\ Returned_(e)
          /\ ~Timed(e) => IsState(emits[e].result, "pending")
          /\ Timed(e) =>
                /\ IsState(emits[e].result, "pending") \/ TimedOut(e)
                /\ (Quiescent /\ \A c \in CallsOf(e) : ~TimerPending(c)) => TimedOut(e)

CyclicTimed(e) == IF e \in EmitIds THEN Cyclic(e) /\ Timed(e) ELSE FALSE
CyclicTimedOut(e) == IF e \in EmitIds THEN TimedOut(e) ELSE FALSE

\* C11: cyclic emission. When a descendant listener emits on its own root
\* while the root's emit is unresolved, the root's emit never settles on an
\* emitter without emitTimeout, and on an emitter with emitTimeout it
\* eventually fails with a TimeoutError, once its timer fires.
C11_CyclicEmission ==
    /\ []CyclicSettles
    /\ \A e \in 1..MaxActivations : CyclicTimed(e) ~> CyclicTimedOut(e)

\* The emit from outside has failed with a TimeoutError after the listener
\* of the derived observable had emitted on the root again.
C11_Witness ==
    \E e, e2 \in EmitIds :
       /\ FromOutside(e) /\ Cyclic(e) /\ Timed(e) /\ TimedOut(e)
       /\ e2 > e /\ emits[e2].em = Root /\ emits[e2].cause < 0

\* Table old without its entries of target, the others in their order.
Without(old, target) == SelectSeq(old, LAMBDA sub : sub.target # target)
\* Table old has an entry of target.
Holds(old, target) == \E k \in 1..Len(old) : old[k].target = target

\* C12: remove and unlink. A call of em.remove(child), or of child.unlink()
\* on child's parent, leaves the table without the entry of child and with
\* every other entry in the same order, leaves the other tables alone, and
\* when the table has no entry of child (an unknown observable, a second
\* unlink) changes nothing and throws nothing.
C12_RemoveFrame ==
    \A i \in 1..Len(removes) :
       LET r == removes[i]
           old == r.before[r.em]
           new == r.after[r.em]
       IN /\ r.op = "unlink" => r.em = parent[r.target]
          /\ \A em \in DOMAIN r.before : em # r.em => r.after[em] = r.before[em]
          /\ DOMAIN r.after = DOMAIN r.before
          /\ r.ret.kind # "throw"
          /\ new = Without(old, r.target)
          /\ Holds(old, r.target) => Len(new) = Len(old) - 1
          /\ ~Holds(old, r.target) => new = old

\* unlink() of the second of three entries, twice: the first call left the
\* first and the third in place, the second call changed nothing.
C12_Witness ==
    /\ Len(removes) = 2
    /\ removes[1].op = "unlink" /\ removes[2].op = "unlink"
    /\ removes[1].target = removes[2].target
    /\ LET old == removes[1].before[removes[1].em]
           new == removes[1].after[removes[1].em]
       IN /\ Len(old) = 3 /\ old[2].target = removes[1].target
          /\ new = <<old[1], old[3]>>
    /\ removes[2].after = removes[2].before
    /\ removes[2].before = removes[1].after

\* Call c is of a subscriber of an observable derived from an entry of
\* activation e: it was made by an emit that forwards the result of a call
\* of e.
IsForwardOf(c, e) ==
    \E c1 \in CallsOf(e) : calls[c1].d # 0 /\ emits[c.emit].cause = calls[c1].d
\* What the subscribers of the derived observables of e have recorded: their
\* calls, in the order they were made.
Recorded(e) == SelectSeq(calls, LAMBDA c : IsForwardOf(c, e))
\* The table of activation e is the synchronous listeners v => v + 1 and
\* v => v + 2, and each emit on their derived observables found one
\* synchronous subscriber.
TwoForwarders(e) ==
    /\ Len(emits[e].before) = 2
    /\ \A k \in 1..2 : /\ emits[e].before[k].listener.kind = "sync"
                        /\ emits[e].before[k].listener.add = k
    /\ \A c \in CallsOf(e) : \A e2 \in ChildEmits(c) :
          Len(emits[e2].before) = 1 /\ AllOfKind(emits[e2].before, {"sync"})

\* C13: forwarding order. With the synchronous listeners L1 (v + 1) and L2
\* (v + 2) registered in this order and one recording subscriber on each
\* derived observable, when emit(v) is fulfilled the subscribers have
\* recorded exactly v + 1, then v + 2: each has run once, the subscriber
\* of L1's observable first.
C13_ForwardingOrder ==
    \A e \in EmitIds :
       (FromOutside(e) /\ EmitFulfilled(e) /\ TwoForwarders(e)) =>
          LET rec == Recorded(e) IN
          /\ Len(rec) = 2
          /\ rec[1].t = Plus(emits[e].t, 1) /\ rec[2].t = Plus(emits[e].t, 2)
          /\ emits[rec[1].emit].em = emits[e].before[1].target
          /\ emits[rec[2].emit].em = emits[e].before[2].target

\* emit(0) is fulfilled and the recorded values are 1, 2.
C13_Witness ==
    \E e \in EmitIds :
       /\ FromOutside(e) /\ EmitFulfilled(e) /\ TwoForwarders(e)
       /\ emits[e].t = Num(0)
       /\ Len(Recorded(e)) = 2
       /\ Recorded(e)[1].t = Num(1) /\ Recorded(e)[2].t = Num(2)

\* C14: empty emitter. emit(v) on an empty table returns a promise that is
\* fulfilled from the moment it is returned and stays so; it calls no
\* listener; and while only empty tables have been emitted on, no timer and
\* no TimeoutError exists, with or without emitTimeout.
C14_EmptyEmitter ==
    /\ \A e \in EmitIds :
          emits[e].before = <<>> =>
             /\ EmitFulfilled(e) /\ ValueOf(emits[e].result) = Undefined
             /\ CallsOf(e) = {}
             /\ emits[e].after = <<>>
    /\ (\A e \in EmitIds : emits[e].before = <<>>) =>
          timers = <<>> /\ errors = <<>> /\ fired = {}

\* emit on the root created with emitTimeout, before any subscribe.
C14_Witness ==
    \E e \in EmitIds :
       /\ FromOutside(e) /\ Timed(e) /\ emits[e].before = <<>>
       /\ EmitFulfilled(e) /\ timers = <<>> /\ errors = <<>>

\* The inputs of the call r of waitAll that have failed.
FailedInputs(r) == {k \in 1..Len(r.inputs) : IsState(r.inputs[k], "rejected")}
\* The inputs that had failed when waitAll was called.
EarlyFailed(r) == {k \in 1..Len(r.inputs) : r.early[k] = "rejected"}
\* The input of r that failed first: of those that had failed at the call,
\* the first of the array; otherwise the first that failed since.
FirstFailure(r) ==
    IF EarlyFailed(r) # {}
    THEN CHOOSE k \in EarlyFailed(r) : \A j \in EarlyFailed(r) : k <= j
    ELSE r.order[CHOOSE i \in 1..Len(r.order) :
                    /\ r.order[i] \in FailedInputs(r)
                    /\ \A j \in 1..(i - 1) : r.order[j] \notin FailedInputs(r)]
AllFulfilled(r) == \A k \in 1..Len(r.inputs) : IsState(r.inputs[k], "fulfilled")

\* The result of waitAll is fulfilled only when every input is, and is once
\* they are and the jobs have run; it is rejected only with the failure of
\* the input that failed first, and is once an input has failed and the
\* jobs have run, whatever the other inputs do.
WaitAllResult ==
    \A i \in 1..Len(waits) :
       LET r == waits[i] IN
       /\ IsState(r.result, "fulfilled") =>
             AllFulfilled(r) /\ ValueOf(r.result) = Undefined
       /\ (Quiescent /\ AllFulfilled(r)) => IsState(r.result, "fulfilled")
       /\ IsState(r.result, "rejected") =>
             FailedInputs(r) # {} /\ ValueOf(r.result) = Error(FirstFailure(r))
       /\ (Quiescent /\ FailedInputs(r) # {}) => IsState(r.result, "rejected")

\* A settled result keeps its state and its value.
WaitAllSettlesOnce ==
    \A i \in 1..Len(waits) :
       promises[waits[i].result].state # "pending" =>
          /\ promises'[waits[i].result].state = promises[waits[i].result].state
          /\ promises'[waits[i].result].value = promises[waits[i].result].value

\* C15: waitAll. The result settles at most once; it resolves exactly when
\* every input has resolved; it fails as soon as the first input fails,
\* with that input's failure, without waiting for the others; inputs that
\* settle afterwards change nothing and failures are not aggregated.
C15_WaitAll == []WaitAllResult /\ [][WaitAllSettlesOnce]_vars

\* The result failed with the first failure while another input was still
\* pending; that input has failed since, and a third has resolved.
C15_Witness ==
    \E i \in 1..Len(waits) :
       LET r == waits[i] IN
       /\ Len(r.inputs) = 3 /\ Len(r.order) = 3 /\ Quiescent
       /\ r.order[1] \in FailedInputs(r) /\ r.order[2] \in FailedInputs(r)
       /\ r.order[3] \notin FailedInputs(r)
       /\ IsState(r.result, "rejected")
       /\ ValueOf(r.result) = Error(r.order[1])

\* The positions of the table activation e started with whose entry e called.
CalledOf(e) ==
    {k \in 1..Len(emits[e].before) : CallsOfTarget(e, emits[e].before[k].target) # {}}
\* The listener of position j of that table removes the entry of position k.
Removes(e, j, k) == emits[e].before[k].target \in emits[e].before[j].listener.rm
\* No listener of the table removes an entry that stands before its own.
LaterOnly(e) ==
    \A j \in 1..Len(emits[e].before) : \A k \in 1..(j - 1) : ~Removes(e, j, k)

\* C16: traversal rule. When the listeners remove only their own entry or
\* entries after it, emit calls exactly the entries that no listener called
\* before them had removed, each once, in the order of the table, and the
\* table it leaves is the one it found without the entries the called
\* listeners removed.
C16_TraversalRule ==
    \A e \in EmitIds :
       (Returned_(e) /\ LaterOnly(e)) =>
          LET cs == CallSeq(e) IN
          /\ \A k \in 1..Len(emits[e].before) :
                /\ k \in CalledOf(e) <=>
                      ~\E j \in CalledOf(e) : j < k /\ Removes(e, j, k)
                /\ Cardinality(CallsOfTarget(e, emits[e].before[k].target)) <= 1
          /\ \A i, j \in 1..Len(cs) :
                i < j => IndexOf(emits[e].before, cs[i].target)
                           < IndexOf(emits[e].before, cs[j].target)
          /\ \A k \in 1..Len(emits[e].before) :
                IndexOf(emits[e].after, emits[e].before[k].target) # 0
                   <=> ~\E j \in CalledOf(e) : Removes(e, j, k)

\* The first of three listeners removed its own entry and the third: emit
\* called the first and the second, not the third.
C16_Witness ==
    \E e \in EmitIds :
       /\ Returned_(e) /\ Len(emits[e].before) = 3
       /\ emits[e].before[1].listener.rm
             = {emits[e].before[1].target, emits[e].before[3].target}
       /\ emits[e].before[2].listener.rm = {}
       /\ CalledOf(e) = {1, 2}
       /\ Len(emits[e].after) = 1 /\ emits[e].after[1] = emits[e].before[2]

\* The result of call c was forwarded: one emit of its value on the
\* observable derived from its entry, which, unless a listener threw, has
\* called every subscriber that observable had.
Forwarded(c) ==
    /\ Cardinality(ChildEmits(c)) = 1
    /\ \A e2 \in ChildEmits(c) :
          /\ emits[e2].em = calls[c].target
          /\ emits[e2].t = ValueOf(calls[c].p)
          /\ Returned_(e2) => CalledAll(e2)
\* The listeners of a failed emit are not cancelled: each one whose promise
\* is fulfilled has its result forwarded, once the jobs have run.
FailedEmitForwards ==
    \A c \in CallIds :
       (/\ EmitRejected(calls[c].emit) /\ Quiescent
        /\ IsState(calls[c].p, "fulfilled")) => Forwarded(c)
\* A failed emit keeps its failure.
FailureStays ==
    \A e \in EmitIds :
       EmitRejected(e) =>
          /\ promises'[emits[e].result].state = "rejected"
          /\ promises'[emits[e].result].value = promises[emits[e].result].value

\* C17: no cancellation. After emit has failed, by a timeout or by the
\* failure of a sibling, every listener it called that resolves still has
\* its result emitted on its derived observable, whose subscribers are
\* called, and the failed emit's outcome does not change.
C17_NoCancellation == []FailedEmitForwards /\ [][FailureStays]_vars

\* emit failed with the TimeoutError of an asynchronous listener; the
\* listener resolved afterwards (its subscriber is synchronous, so the
\* timer fired before the result was forwarded) and the subscriber of its
\* observable was called with the result.
C17_Witness ==
    \E c \in CallIds : \E e2 \in ChildEmits(c) : \E c2 \in CallsOf(e2) :
       /\ Quiescent /\ FromOutside(calls[c].emit)
       /\ calls[c].listener.kind = "async" /\ FiredLate(c)
       /\ EmitRejected(calls[c].emit)
       /\ ValueOf(emits[calls[c].emit].result) = TimeoutError(calls[c].e)
       /\ AllOfKind(emits[e2].before, {"sync"})
       /\ calls[c2].t = ValueOf(calls[c].p)

\* The listeners next() has subscribed: those in the tables and those called.
NextListeners ==
    UNION {{subscriptions[em][k].listener : k \in NextEntries(subscriptions[em])} :
              em \in Emitters}
    \cup {calls[c].listener : c \in {x \in CallIds : calls[x].listener.kind = "next"}}
\* Activation e found only temporary subscriptions of next() in the table,
\* none of which its value satisfies.
OnlyUnsatisfied(e) ==
    /\ emits[e].before # <<>>
    /\ NextEntries(emits[e].before) = 1..Len(emits[e].before)
    /\ Matching(emits[e].before, emits[e].t) = {}

\* C18: unsatisfied next(). The promise of next() is never rejected; while
\* every value its subscription was called with fails the predicate, the
\* promise is pending and the subscription is in the table; each such call
\* contributes a promise to emit that is fulfilled once the jobs have run,
\* also after the timers have fired; and an emit that found only such
\* subscriptions returns and is fulfilled.
C18_UnsatisfiedNext ==
    /\ \A l \in NextListeners :
          /\ ~IsState(l.prom, "rejected")
          /\ (\A c \in NextCalls(l.sub) : ~Matches(c)) =>
                /\ IsState(l.prom, "pending")
                /\ IndexOf(subscriptions[l.obs], l.sub) # 0
    /\ \A c \in CallIds :
          (calls[c].listener.kind = "next" /\ ~Matches(c) /\ Quiescent) =>
             IsState(calls[c].d, "fulfilled") /\ IsState(calls[c].c, "fulfilled")
    /\ \A e \in EmitIds :
          OnlyUnsatisfied(e) => Returned_(e) /\ (Quiescent => EmitFulfilled(e))

\* The root with emitTimeout and two next(t => t === 1): emit(0) is
\* fulfilled, the timers have fired, both promises are pending and both
\* subscriptions are in the table.
C18_Witness ==
    \E e \in EmitIds :
       /\ FromOutside(e) /\ Timed(e) /\ OnlyUnsatisfied(e)
       /\ Len(emits[e].before) = 2 /\ emits[e].t = Num(0)
       /\ Quiescent /\ timers = <<>> /\ Cardinality(fired) = 2
       /\ EmitFulfilled(e)
       /\ subscriptions[Root] = emits[e].before
       /\ \A k \in 1..2 : IsState(emits[e].before[k].listener.prom, "pending")

\* The places, table and position, where observable target is recorded.
PlacesOf(target) ==
    UNION {{<<em, k>> : k \in {j \in 1..Len(subscriptions[em]) :
                                   subscriptions[em][j].target = target}} :
              em \in Emitters}

\* C19: table invariant. Every observable returned by subscribe is recorded
\* in at most one entry, and that entry is in the table of the emitter it
\* was subscribed on; a remove called on another emitter than that one
\* changes no table.
C19_TableInvariant ==
    /\ \A target \in Emitters :
          /\ Cardinality(PlacesOf(target)) <= 1
          /\ \A place \in PlacesOf(target) : place[1] = parent[target]
    /\ \A i \in 1..Len(removes) :
          removes[i].em # parent[removes[i].target] =>
             removes[i].after = removes[i].before

\* remove was called on the root for an observable subscribed on a derived
\* emitter: the entry is still in the derived emitter's table.
C19_Witness ==
    \E i \in 1..Len(removes) :
       LET r == removes[i] IN
       /\ r.em = Root /\ parent[r.target] # Root
       /\ r.before[Root] # <<>>
       /\ Holds(r.before[parent[r.target]], r.target)
       /\ PlacesOf(r.target) # {}

\* The observables recorded in table.
TargetsOf(table) == {table[k].target : k \in 1..Len(table)}
\* The subscriptions appended to the table of activation e during its
\* traversal: those it called or left in the table that it had not found.
AppendedDuring(e) ==
    (TargetsOf(emits[e].after) \cup {calls[c].target : c \in CallsOf(e)})
       \ TargetsOf(emits[e].before)
\* Call c is of a listener that awaits next() of the very observable whose
\* emit called it.
AwaitsOwn(c) ==
    calls[c].listener.kind = "waiter" /\ calls[c].listener.obs = emits[calls[c].emit].em

\* C20: subscription during emission. A subscription that a listener
\* appends to the table being traversed is called by that traversal, once,
\* with the value being emitted; next() called by a listener on the
\* observable being emitted is resolved with that value when the predicate
\* accepts it, and its subscription is out of the table when emit returns.
C20_SubscriptionDuringEmission ==
    \A e \in EmitIds :
       Returned_(e) =>
          /\ \A target \in AppendedDuring(e) :
                /\ Cardinality(CallsOfTarget(e, target)) = 1
                /\ \A c \in CallsOfTarget(e, target) : calls[c].t = emits[e].t
          /\ \A c \in CallsOf(e) :
                (AwaitsOwn(c) /\ Predicate(calls[c].listener.pred, emits[e].t)) =>
                   /\ IsState(WaitOf(c), "fulfilled")
                   /\ ValueOf(WaitOf(c)) = emits[e].t
          /\ \A k \in Matching(emits[e].after, emits[e].t) :
                emits[e].after[k].target \notin AppendedDuring(e)

\* emit(1) called a listener that awaits next(t => t === 1) of the emitter
\* and a listener that subscribes another; the traversal called both new
\* subscriptions, the promise of next is fulfilled with 1 and only the
\* other subscription is left.
C20_Witness ==
    \E e \in EmitIds : \E c1, c2 \in CallsOf(e) :
       /\ Returned_(e) /\ emits[e].t = Num(1)
       /\ AwaitsOwn(c1) /\ calls[c1].listener.pred = <<1>>
       /\ calls[c2].listener.kind = "adder"
       /\ Len(emits[e].before) = 2
       /\ Cardinality(AppendedDuring(e)) = 2
       /\ Cardinality(CallsOf(e)) = 4
       /\ IsState(WaitOf(c1), "fulfilled") /\ ValueOf(WaitOf(c1)) = Num(1)
       /\ Len(emits[e].after) = 3
       /\ NextEntries(emits[e].after) = {}

====
